---- MODULE Spec2Model ----
(***************************************************************************)
(* Model of the LisaAlert acceptance-test harness:                         *)
(*   pages/base_page.py      the page object (wait / interact / compare)   *)
(*   features/steps/steps.py the behave step definitions                   *)
(*   features/environment.py the per-scenario session hooks                *)
(*                                                                         *)
(* The specifications share the variables below.                           *)
(*   SpecWait, SpecClick, SpecText, SpecCompare                            *)
(*             calls of page-object methods: Init draws the arguments and  *)
(*             the behaviour of the remote page during the call, the       *)
(*             method's action computes what the code does.                *)
(*   SpecLoad, SpecTimeout                                                 *)
(*             likewise for wait_for_full_page_load and for the timeout    *)
(*             argument of the waiting methods.                            *)
(*   Spec      the scenario runner: before_scenario, steps, after_scenario *)
(*             over a persistent screenshot store.                         *)
(*   SpecSteps the scenario runner with the steps that leave the           *)
(*             screenshot store alone.                                     *)
(*                                                                         *)
(* Time is counted in polls of WebDriverWait (one poll every 1/PollsPerSec *)
(* seconds).  The remote page is described by what it shows at each poll.  *)
(* Locators and texts are well formed: the selector strings built from     *)
(* them are valid, so a lookup either finds elements or finds none.        *)
(***************************************************************************)
EXTENDS Integers, Sequences, FiniteSets, TLC

VARIABLES
    pc,         \* calls: "ready" before the call, "done" after it
    op,         \* calls: the page-object method called last
    args,       \* calls: the arguments
    env,        \* calls: what the remote page does during the call
    ret,        \* calls: what the call returned or raised, and its effects
    phase,      \* Spec: position of the scenario runner
    driver,     \* Spec: context.driver ("unset", "open", "quit")
    main_page,  \* Spec: whether context.main_page is set
    sessions,   \* Spec: number of browser sessions currently open
    step,       \* Spec: the last step run, its arguments and outcome
    refs,       \* files under screenshots/expected/, by name
    diffs,      \* files under screenshots/diff/, by name
    diff_png,   \* the file diff.png of the working directory
    attached    \* attachments added to the report by the last call or step

vars == <<pc, op, args, env, ret, phase, driver, main_page, sessions,
          step, refs, diffs, diff_png, attached>>

callVars == <<pc, op, args, env, ret>>
runVars == <<phase, driver, main_page, sessions, step>>
fileVars == <<refs, diffs, diff_png, attached>>

----------------------------------------------------------------------------
(* Bounds of the model *)

MaxTimeout == 2
MaxLen == 2
MaxArea == 2
MaxPix == 1
MaxTol == 2
TolDen == 2
MaxSessions == 2

(* Program constants *)

DefaultTimeout == 10
PollsPerSec == 2
LoadDefaultTimeout == 15
StepLoadTimeout == 20
LandmarkTimeout == 5

None == "None"
NoTimeout == -1                                \* the argument timeout=None
NoFile == [w |-> 0, h |-> 0, px |-> <<>>]      \* no file at the path

Max(a, b) == IF a >= b THEN a ELSE b
MinOf(S) == CHOOSE x \in S : \A y \in S : x <= y

----------------------------------------------------------------------------
(* The remote page during a wait.  An element matching the locator enters  *)
(* the page at poll `from` in the given stage and stays; before that no    *)
(* element matches.  from = Horizon is later than every deadline.          *)

Horizon == Max(DefaultTimeout, MaxTimeout) * PollsPerSec

Stages == {"present", "visible", "clickable"}
Pages == [from : 0..Horizon, stage : Stages]

(* the element is in state page.stage from poll page.from on; before that  *)
(* poll it is absent, or in state page.before for a page that takes the    *)
(* element away                                                            *)
ElementAt(page, k) ==
    IF k >= page.from THEN page.stage
    ELSE IF "before" \in DOMAIN page THEN page.before
    ELSE "absent"

Timeouts == {NoTimeout} \cup (0..MaxTimeout)

(* expected_conditions: the states of the element in which each holds *)
visibility_of_element_located == {"visible", "clickable"}
presence_of_all_elements_located == {"present", "visible", "clickable"}
element_to_be_clickable == {"clickable"}
invisibility_of_element_located == {"absent", "present"}

(* timeout = self.timeout if timeout is None else timeout *)
effective_timeout_none_only(timeout) ==
    IF timeout = NoTimeout THEN DefaultTimeout ELSE timeout

(* timeout = timeout or self.timeout *)
effective_timeout(timeout) ==
    IF timeout = NoTimeout \/ timeout = 0 THEN DefaultTimeout ELSE timeout

(* WebDriverWait(driver, timeout).until(condition): the condition is       *)
(* evaluated at poll 0 and after each sleep that ends before the deadline. *)
LastPoll(timeout) == Max(timeout * PollsPerSec - 1, 0)

until(condition, page, timeout) ==
    LET hits == {k \in 0..LastPoll(timeout) : ElementAt(page, k) \in condition}
    IN  IF hits # {}
        THEN [out |-> "element", at |-> MinOf(hits)]
        ELSE [out |-> "TimeoutException", at |-> LastPoll(timeout)]

wait_and_find_element(page, timeout) ==
    until(visibility_of_element_located, page, effective_timeout(timeout))

(* is_element_not_visible: True when the element is invisible or absent at *)
(* a poll of the wait, False on the timeout                                *)
is_element_not_visible(page, timeout) ==
    LET w == until(invisibility_of_element_located, page, effective_timeout(timeout))
    IN  [out |-> IF w.out = "TimeoutException" THEN "False" ELSE "True", at |-> w.at]

wait_and_find_elements(page, timeout) ==
    until(presence_of_all_elements_located, page, effective_timeout(timeout))

(* wait_for_clickable waiting for visibility only *)
wait_for_clickable_visible(page, timeout) ==
    until(visibility_of_element_located, page, effective_timeout(timeout))

wait_for_clickable(page, timeout) ==
    until(element_to_be_clickable, page, effective_timeout(timeout))

----------------------------------------------------------------------------
(* click_element.  An attempt resolves the locator and clicks the handle;  *)
(* a.page is the page during the resolution and a.stale says whether the   *)
(* DOM re-rendered between the resolution and the click.                   *)

Attempts == [page : [from : 0..Horizon, stage : {"clickable"}], stale : BOOLEAN]

click_attempt(a, timeout) ==
    LET w == wait_for_clickable(a.page, timeout)
    IN  IF w.out = "TimeoutException" THEN "TimeoutException"
        ELSE IF a.stale THEN "StaleElementReferenceException"
        ELSE "clicked"

(* click_element without the except clause *)
click_element_no_retry(a1, a2, timeout) ==
    LET r1 == click_attempt(a1, timeout)
    IN  [out |-> IF r1 = "clicked" THEN "ok" ELSE r1,
         resolutions |-> 1,
         clicks |-> IF r1 = "clicked" THEN 1 ELSE 0]

click_element(a1, a2, timeout) ==
    LET r1 == click_attempt(a1, timeout)
        r2 == click_attempt(a2, timeout)
    IN  IF r1 = "StaleElementReferenceException"
        THEN [out |-> IF r2 = "clicked" THEN "ok" ELSE r2,
              resolutions |-> 2,
              clicks |-> IF r2 = "clicked" THEN 1 ELSE 0]
        ELSE [out |-> IF r1 = "clicked" THEN "ok" ELSE r1,
              resolutions |-> 1,
              clicks |-> IF r1 = "clicked" THEN 1 ELSE 0]

----------------------------------------------------------------------------
(* Text presence.  A text is a non-empty sequence of characters.  The page *)
(* holds one element with a text node; it enters the page at poll `from`,  *)
(* displayed (stage "visible") or hidden (stage "present").                *)

Chars == {"a", "b"}
Texts == UNION {[1..n -> Chars] : n \in 1..MaxLen}
TextPages == [text : Texts, from : 0..Horizon, stage : {"present", "visible"}]

contains(haystack, needle) ==
    \E i \in 0..(Len(haystack) - Len(needle)) :
        SubSeq(haystack, i + 1, i + Len(needle)) = needle

(* xpath = //*[text()='{text}'] if exact_match else //*[contains(text(), '{text}')] *)
text_xpath(text, exact_match) ==
    [by |-> "xpath",
     test |-> IF exact_match THEN "text()=" ELSE "contains(text(),)",
     value |-> text]

xpath_matches(locator, node_text) ==
    IF locator.test = "text()=" THEN node_text = locator.value
    ELSE contains(node_text, locator.value)

(* what the page shows to a wait on the locator *)
located(locator, tpage) ==
    IF xpath_matches(locator, tpage.text)
    THEN [from |-> tpage.from, stage |-> tpage.stage]
    ELSE [from |-> Horizon, stage |-> tpage.stage]

(* is_text_present returning False without the screenshot *)
is_text_present_no_shot(text, exact_match, timeout, tpage) ==
    LET t == effective_timeout(timeout)
        xpath == text_xpath(text, exact_match)
        w == until(visibility_of_element_located, located(xpath, tpage), t)
    IN  [out |-> IF w.out = "TimeoutException" THEN "False" ELSE "True",
         attached |-> <<>>]

is_text_present(text, exact_match, timeout, tpage) ==
    LET t == effective_timeout(timeout)
        xpath == text_xpath(text, exact_match)
        w == until(visibility_of_element_located, located(xpath, tpage), t)
    IN  IF w.out = "TimeoutException"
        THEN [out |-> "False", attached |-> <<[name |-> "text_not_found", of |-> text]>>]
        ELSE [out |-> "True", attached |-> <<>>]

not(b) == IF b = "True" THEN "False" ELSE "True"

(* is_text_not_present not passing exact_match on *)
is_text_not_present_partial(text, exact_match, timeout, tpage) ==
    LET r == is_text_present(text, FALSE, timeout, tpage)
    IN  [out |-> not(r.out), attached |-> r.attached]

is_text_not_present(text, exact_match, timeout, tpage) ==
    LET r == is_text_present(text, exact_match, timeout, tpage)
    IN  [out |-> not(r.out), attached |-> r.attached]

----------------------------------------------------------------------------
(* Images.  An image has a width, a height and w*h pixels (at most         *)
(* MaxArea), each a grey level in 0..MaxPix (0 black, MaxPix white).       *)

Sizes == {s \in (1..MaxArea) \X (1..MaxArea) : s[1] * s[2] <= MaxArea}
Images == UNION {[w : {s[1]}, h : {s[2]}, px : [1..(s[1] * s[2]) -> 0..MaxPix]] : s \in Sizes}
size(img) == <<img.w, img.h>>
blank(w, h) == [w |-> w, h |-> h, px |-> [k \in 1..(w * h) |-> 0]]

(* A tolerance n stands for the float n / TolDen. *)
Tolerances == 0..MaxTol

(* pixelmatch(img1, img2, output, threshold): the number of pixels whose   *)
(* YIQ colour delta exceeds 35215 * threshold^2.  For grey levels the      *)
(* delta is 0.5053 * (255 * (p - q) / MaxPix)^2 = 32857 * ((p - q) / MaxPix)^2. *)
pixel_differs(p, q, threshold) ==
    32857 * (p - q) * (p - q) * TolDen * TolDen
        > 35215 * threshold * threshold * MaxPix * MaxPix

pixelmatch(img1, img2, threshold) ==
    Cardinality({k \in 1..(img1.w * img1.h) :
                    pixel_differs(img1.px[k], img2.px[k], threshold)})

(* compare_screenshots checking the sizes after the diff was made *)
compare_screenshots_diff_first(actual_image, expected_file, basename, threshold, save_diff) ==
    IF expected_file = NoFile
    THEN [out |-> "FileNotFoundError", pixelmatch_calls |-> 0,
          diff_png |-> NoFile, attached |-> <<>>]
    ELSE [out |-> IF size(actual_image) # size(expected_file) THEN "ValueError"
                  ELSE IF pixelmatch(actual_image, expected_file, threshold) * TolDen
                            <= threshold * actual_image.w * actual_image.h
                  THEN "True" ELSE "False",
          pixelmatch_calls |-> 1,
          diff_png |-> IF save_diff
                       THEN blank(actual_image.w, actual_image.h)
                       ELSE NoFile,
          attached |-> IF save_diff
                       THEN <<[name |-> "DIFF", of |-> basename]>>
                       ELSE <<>>]

(* compare_screenshots passing only below the threshold *)
compare_screenshots_strict(actual_image, expected_file, basename, threshold, save_diff) ==
    IF expected_file = NoFile
    THEN [out |-> "FileNotFoundError", pixelmatch_calls |-> 0,
          diff_png |-> NoFile, attached |-> <<>>]
    ELSE IF size(actual_image) # size(expected_file)
    THEN [out |-> "ValueError", pixelmatch_calls |-> 0,
          diff_png |-> NoFile, attached |-> <<>>]
    ELSE LET mismatch == pixelmatch(actual_image, expected_file, threshold)
         IN  [out |-> IF mismatch * TolDen < threshold * actual_image.w * actual_image.h
                      THEN "True" ELSE "False",
              pixelmatch_calls |-> 1,
              diff_png |-> IF save_diff
                           THEN blank(actual_image.w, actual_image.h)
                           ELSE NoFile,
              attached |-> IF save_diff
                           THEN <<[name |-> "DIFF", of |-> basename]>>
                           ELSE <<>>]

(* compare_screenshots(actual_image, expected_image_path, threshold, save_diff); *)
(* expected_file is the content of the file at expected_image_path.        *)
(* `diff` is created blank and only a converted copy of it is handed to    *)
(* pixelmatch, so the file written is the blank image of the actual size.  *)
compare_screenshots(actual_image, expected_file, basename, threshold, save_diff) ==
    IF expected_file = NoFile
    THEN [out |-> "FileNotFoundError", pixelmatch_calls |-> 0,
          diff_png |-> NoFile, attached |-> <<>>]
    ELSE IF size(actual_image) # size(expected_file)
    THEN [out |-> "ValueError", pixelmatch_calls |-> 0,
          diff_png |-> NoFile, attached |-> <<>>]
    ELSE LET mismatch == pixelmatch(actual_image, expected_file, threshold)
         IN  [out |-> IF mismatch * TolDen <= threshold * actual_image.w * actual_image.h
                      THEN "True" ELSE "False",
              pixelmatch_calls |-> 1,
              diff_png |-> IF save_diff
                           THEN blank(actual_image.w, actual_image.h)
                           ELSE NoFile,
              attached |-> IF save_diff
                           THEN <<[name |-> "DIFF", of |-> basename]>>
                           ELSE <<>>]

----------------------------------------------------------------------------
(* wait_for_full_page_load.  During the call the page is described by      *)
(*   ready      the poll at which document.readyState becomes "complete"   *)
(*   ajax       "idle" (no request pending), "busy" (requests never end)   *)
(*              or "error" (the script raises)                             *)
(*   landmarks  for body, main, header and footer: "missing", "visible",   *)
(*              or "hidden" (found but never displayed)                    *)
(*   h1, h2     the two samples of document.body.scrollHeight              *)
(*   sampling_fails  whether reading the height raises                     *)

LoadNever == StepLoadTimeout * PollsPerSec
ReadyAts == {0, 1, LoadNever}
Heights == {1, 2}
Landmarks == 1..4
LoadEnvs ==
    [ready : ReadyAts, ajax : {"idle", "busy", "error"},
     landmarks : [Landmarks -> {"missing", "visible", "hidden"}],
     h1 : Heights, h2 : Heights, sampling_fails : BOOLEAN]
LoadTimeouts == {NoTimeout, StepLoadTimeout} \cup (0..MaxTimeout)

(* the script-valued waits of steps 1 and 2 *)
script_wait(true_from, timeout) ==
    until({"clickable"}, [from |-> true_from, stage |-> "clickable"], timeout)

(* the number of failures the inner try blocks swallow *)
swallowed_failures(e, timeout) ==
    (IF e.ajax = "error"
        \/ script_wait(IF e.ajax = "idle" THEN 0 ELSE LoadNever, timeout).out
               = "TimeoutException"
     THEN 1 ELSE 0)
    + Cardinality({l \in Landmarks :
          e.landmarks[l] = "hidden"
          /\ until(visibility_of_element_located,
                   [from |-> LoadNever, stage |-> "visible"],
                   LandmarkTimeout).out = "TimeoutException"})

load_failed(cause, checked, swallowed) ==
    [out |-> "AssertionError", cause |-> cause, stability_checked |-> checked,
     swallowed |-> swallowed,
     attached |-> <<[name |-> "page_load_failed", of |-> cause]>>]

(* the ajax wait outside its try block *)
wait_for_full_page_load_strict_ajax(timeout, e) ==
    LET t == IF timeout = NoTimeout THEN LoadDefaultTimeout ELSE timeout
    IN  IF script_wait(e.ready, t).out = "TimeoutException"
        THEN load_failed("ready_state", FALSE, 0)
        ELSE IF e.ajax # "idle"
        THEN load_failed("ajax", FALSE, 0)
        ELSE IF e.sampling_fails \/ e.h1 # e.h2
        THEN load_failed("stability", TRUE, swallowed_failures(e, t))
        ELSE [out |-> "True", cause |-> "none", stability_checked |-> TRUE,
              swallowed |-> swallowed_failures(e, t), attached |-> <<>>]

(* an unstable height reported by returning False *)
wait_for_full_page_load_returns_false(timeout, e) ==
    LET t == IF timeout = NoTimeout THEN LoadDefaultTimeout ELSE timeout
    IN  IF script_wait(e.ready, t).out = "TimeoutException"
        THEN load_failed("ready_state", FALSE, 0)
        ELSE [out |-> IF e.sampling_fails \/ e.h1 # e.h2 THEN "False" ELSE "True",
              cause |-> "none", stability_checked |-> TRUE,
              swallowed |-> swallowed_failures(e, t), attached |-> <<>>]

(* wait_for_full_page_load(timeout=15) *)
wait_for_full_page_load(timeout, e) ==
    LET t == IF timeout = NoTimeout THEN LoadDefaultTimeout ELSE timeout
    IN  IF script_wait(e.ready, t).out = "TimeoutException"
        THEN load_failed("ready_state", FALSE, 0)
        ELSE IF e.sampling_fails \/ e.h1 # e.h2
        THEN load_failed("stability", TRUE, swallowed_failures(e, t))
        ELSE [out |-> "True", cause |-> "none", stability_checked |-> TRUE,
              swallowed |-> swallowed_failures(e, t), attached |-> <<>>]

----------------------------------------------------------------------------
(* Values of the variables a specification does not use *)

Names == {"main_page.png"}

NoCall == [out |-> "none", attached |-> <<>>]
NoStep == [name |-> "none", outcome |-> "none", error |-> "none"]

CallIdle ==
    /\ pc = "idle"
    /\ op = "none"
    /\ args = None
    /\ env = None
    /\ ret = NoCall

RunIdle ==
    /\ phase = "idle"
    /\ driver = "unset"
    /\ main_page = FALSE
    /\ sessions = 0
    /\ step = NoStep

FilesEmpty ==
    /\ refs = [n \in Names |-> NoFile]
    /\ diffs = [n \in Names |-> NoFile]
    /\ diff_png = NoFile
    /\ attached = <<>>

----------------------------------------------------------------------------
(* SpecWait: one call of a wait primitive *)

InitWait ==
    /\ pc = "ready"
    /\ op = "none"
    /\ args \in [timeout : Timeouts]
    /\ env \in [page : Pages]
    /\ ret = NoCall
    /\ RunIdle
    /\ FilesEmpty

Return(name, r) ==
    /\ pc = "ready"
    /\ pc' = "done"
    /\ op' = name
    /\ ret' = r
    /\ UNCHANGED <<args, env>>

WaitAndFindElement ==
    /\ Return("wait_and_find_element", wait_and_find_element(env.page, args.timeout))
    /\ UNCHANGED <<runVars, fileVars>>

WaitAndFindElements ==
    /\ Return("wait_and_find_elements", wait_and_find_elements(env.page, args.timeout))
    /\ UNCHANGED <<runVars, fileVars>>

WaitForClickable ==
    /\ Return("wait_for_clickable", wait_for_clickable(env.page, args.timeout))
    /\ UNCHANGED <<runVars, fileVars>>

NextWait == WaitAndFindElement \/ WaitAndFindElements \/ WaitForClickable

SpecWait == InitWait /\ [][NextWait]_vars

----------------------------------------------------------------------------
(* SpecClick: one call of click_element *)

InitClick ==
    /\ pc = "ready"
    /\ op = "none"
    /\ args \in [timeout : Timeouts]
    /\ env \in [a1 : Attempts, a2 : Attempts]
    /\ ret = NoCall
    /\ RunIdle
    /\ FilesEmpty

ClickElement ==
    /\ Return("click_element", click_element(env.a1, env.a2, args.timeout))
    /\ UNCHANGED <<runVars, fileVars>>

NextClick == ClickElement

SpecClick == InitClick /\ [][NextClick]_vars

----------------------------------------------------------------------------
(* SpecText: is_text_present and is_text_not_present, each called once, in *)
(* either order, with the same arguments against the same page behaviour.  *)

InitText ==
    /\ pc = "ready"
    /\ op = "none"
    /\ args \in [text : Texts, exact_match : BOOLEAN, timeout : Timeouts]
    /\ env \in [page : TextPages]
    /\ ret = [present |-> NoCall, absent |-> NoCall]
    /\ RunIdle
    /\ FilesEmpty

IsTextPresent ==
    /\ pc = "ready"
    /\ ret.present = NoCall
    /\ LET r == is_text_present(args.text, args.exact_match, args.timeout, env.page)
       IN  /\ ret' = [ret EXCEPT !.present = r]
           /\ attached' = r.attached
    /\ op' = "is_text_present"
    /\ UNCHANGED <<pc, args, env, runVars, refs, diffs, diff_png>>

IsTextNotPresent ==
    /\ pc = "ready"
    /\ ret.absent = NoCall
    /\ LET r == is_text_not_present(args.text, args.exact_match, args.timeout, env.page)
       IN  /\ ret' = [ret EXCEPT !.absent = r]
           /\ attached' = r.attached
    /\ op' = "is_text_not_present"
    /\ UNCHANGED <<pc, args, env, runVars, refs, diffs, diff_png>>

NextText == IsTextPresent \/ IsTextNotPresent

SpecText == InitText /\ [][NextText]_vars

----------------------------------------------------------------------------
(* SpecCompare: one call of compare_screenshots against the file stored    *)
(* under a name of the reference store.                                    *)

InitCompare ==
    /\ pc = "ready"
    /\ op = "none"
    /\ args \in [actual : Images, name : Names, threshold : Tolerances, save_diff : BOOLEAN]
    /\ env = None
    /\ ret = NoCall
    /\ RunIdle
    /\ refs \in [Names -> Images \cup {NoFile}]
    /\ diffs = [n \in Names |-> NoFile]
    /\ diff_png = NoFile
    /\ attached = <<>>

CompareScreenshots ==
    LET r == compare_screenshots(args.actual, refs[args.name], args.name,
                                 args.threshold, args.save_diff)
    IN  /\ Return("compare_screenshots", r)
        /\ diff_png' = IF r.diff_png # NoFile THEN r.diff_png ELSE diff_png
        /\ attached' = r.attached
        /\ UNCHANGED <<runVars, refs, diffs>>

NextCompare == CompareScreenshots

SpecCompare == InitCompare /\ [][NextCompare]_vars

----------------------------------------------------------------------------
(* SpecLoad: one call of wait_for_full_page_load *)

InitLoad ==
    /\ pc = "ready"
    /\ op = "none"
    /\ args \in [timeout : LoadTimeouts]
    /\ env \in LoadEnvs
    /\ ret = NoCall
    /\ RunIdle
    /\ FilesEmpty

WaitForFullPageLoad ==
    LET r == wait_for_full_page_load(args.timeout, env)
    IN  /\ Return("wait_for_full_page_load", r)
        /\ attached' = r.attached
        /\ UNCHANGED <<runVars, refs, diffs, diff_png>>

NextLoad == WaitForFullPageLoad

SpecLoad == InitLoad /\ [][NextLoad]_vars

----------------------------------------------------------------------------
(* SpecTimeout: the waiting methods called with each timeout argument on a *)
(* page whose awaited change happens at poll env.from.                     *)

Appearing(from) == [from |-> from, stage |-> "clickable"]
Vanishing(from) == [from |-> from, stage |-> "absent", before |-> "visible"]
ShowingText(text, from) == [text |-> text, from |-> from, stage |-> "visible"]
BecomingReady(from) ==
    [ready |-> from, ajax |-> "idle", landmarks |-> [l \in Landmarks |-> "visible"],
     h1 |-> 1, h2 |-> 1, sampling_fails |-> FALSE]

InitTimeout ==
    /\ pc = "ready"
    /\ op = "none"
    /\ args \in [timeout : Timeouts]
    /\ env \in [from : 0..LoadNever]
    /\ ret = NoCall
    /\ RunIdle
    /\ FilesEmpty

TimedWaitAndFindElement ==
    /\ Return("wait_and_find_element",
              wait_and_find_element(Appearing(env.from), args.timeout))
    /\ UNCHANGED <<runVars, fileVars>>

TimedWaitAndFindElements ==
    /\ Return("wait_and_find_elements",
              wait_and_find_elements(Appearing(env.from), args.timeout))
    /\ UNCHANGED <<runVars, fileVars>>

TimedWaitForClickable ==
    /\ Return("wait_for_clickable",
              wait_for_clickable(Appearing(env.from), args.timeout))
    /\ UNCHANGED <<runVars, fileVars>>

TimedIsElementNotVisible ==
    /\ Return("is_element_not_visible",
              is_element_not_visible(Vanishing(env.from), args.timeout))
    /\ UNCHANGED <<runVars, fileVars>>

TimedIsTextPresent ==
    LET r == is_text_present(<<"a">>, TRUE, args.timeout, ShowingText(<<"a">>, env.from))
    IN  /\ Return("is_text_present", r)
        /\ attached' = r.attached
        /\ UNCHANGED <<runVars, refs, diffs, diff_png>>

TimedWaitForFullPageLoad ==
    LET r == wait_for_full_page_load(args.timeout, BecomingReady(env.from))
    IN  /\ Return("wait_for_full_page_load", r)
        /\ attached' = r.attached
        /\ UNCHANGED <<runVars, refs, diffs, diff_png>>

NextTimeout ==
    \/ TimedWaitAndFindElement
    \/ TimedWaitAndFindElements
    \/ TimedWaitForClickable
    \/ TimedIsElementNotVisible
    \/ TimedIsTextPresent
    \/ TimedWaitForFullPageLoad

SpecTimeout == InitTimeout /\ [][NextTimeout]_vars

----------------------------------------------------------------------------
(* Typing into a field.  `inputs` is the set of data-component values of   *)
(* the displayed input elements of the page during the step.               *)

Words == {"email-input", "test@example.com"}
Urls == {"https://example.test/login", "https://example.test/home"}

(* locator = (By.CSS_SELECTOR, f'{element_type}[{attr}="{value}"]') *)
css_locator(element_type, attr, value) ==
    [by |-> "css selector", tag |-> element_type, attr |-> attr, value |-> value]

css_located(locator, inputs) ==
    IF locator.tag = "input" /\ locator.attr = "data-component"
           /\ locator.value \in inputs
    THEN [from |-> 0, stage |-> "clickable"]
    ELSE [from |-> Horizon, stage |-> "clickable"]

enter_text(locator, text, clear, timeout, inputs) ==
    LET element == wait_and_find_element(css_located(locator, inputs), timeout)
    IN  IF element.out = "TimeoutException"
        THEN [out |-> "TimeoutException", target |-> None, keys |-> None]
        ELSE [out |-> "ok", target |-> locator.value, keys |-> text]

enter_text_by_attribute(attr, value, text, timeout, inputs) ==
    enter_text(css_locator("input", attr, value), text, TRUE, timeout, inputs)

enter_text_to_data_component(component_name, text, timeout, inputs) ==
    enter_text_by_attribute("data-component", component_name, text, timeout, inputs)

(* open_page(url): `ready` says whether document.readyState becomes        *)
(* "complete" within the timeout, `landed` is the URL the browser ends at. *)
open_page(url, verify, timeout, ready, landed) ==
    LET w == until(element_to_be_clickable,
                   [from |-> IF ready THEN 0 ELSE Horizon, stage |-> "clickable"],
                   effective_timeout(timeout))
    IN  IF w.out = "TimeoutException" THEN "TimeoutException"
        ELSE IF verify /\ landed # url THEN "AssertionError"
        ELSE "ok"

----------------------------------------------------------------------------
(* The methods of class BasePage; context.page is a BasePage. *)

BasePageMethods ==
    {"wait_and_find_element", "wait_and_find_elements", "wait_for_clickable",
     "click_element", "enter_text", "click_by_attribute",
     "enter_text_by_attribute", "click_by_text", "click_by_exact_text",
     "click_by_data_component", "enter_text_to_data_component",
     "enter_text_to_placeholder", "is_element_visible",
     "is_element_not_visible", "is_text_present", "is_text_not_present",
     "open_page", "upload_file", "download_file", "drag_and_drop",
     "press_key", "type_text", "switch_to_new_tab", "close_current_tab",
     "switch_to_iframe", "switch_to_default_content", "execute_js",
     "scroll_to_element", "scroll_page_down", "scroll_page_up",
     "hover_element", "hover_element_by_id", "hover_element_by_class",
     "hover_element_by_data_component", "is_element_active",
     "is_element_disabled", "is_button_active", "is_button_disabled",
     "take_screenshot", "take_element_screenshot", "compare_screenshots",
     "compare_element_with_expected", "wait_for_full_page_load"}

----------------------------------------------------------------------------
(* Steps.  A step returns its outcome ("passed" or "failed"), the error    *)
(* that failed it, the attachments it added and the files it wrote.        *)
(* context.page is the BasePage of before_scenario; context.main_page is   *)
(* the MainPage made by the open-page step, a page object with the methods *)
(* of BasePage.                                                            *)

(* step: Открыть страницу "{url}" *)
step_open_page(url, ready, landed) ==
    LET r == open_page(url, TRUE, NoTimeout, ready, landed)
    IN  [outcome |-> IF r = "ok" THEN "passed" ELSE "failed",
         error |-> IF r = "ok" THEN "none" ELSE r]

(* step: URL должен быть "{expected_url}" *)
step_check_url(current_url, expected_url) ==
    IF current_url = expected_url
    THEN [outcome |-> "passed", error |-> "none", attached |-> <<>>]
    ELSE [outcome |-> "failed", error |-> "AssertionError", attached |-> <<>>]

(* click_by_text(text, element_type, timeout): the attempts describe the   *)
(* page for the locator //{element_type}[contains(text(), '{text}')]       *)
click_by_text(a1, a2, timeout) == click_element(a1, a2, timeout)

(* step: Пользователь кликает на текст "{text}" *)
step_click_by_text(has_main_page, a1, a2) ==
    LET r == IF has_main_page THEN click_by_text(a1, a2, NoTimeout).out
             ELSE "AttributeError"
    IN  [outcome |-> IF r = "ok" THEN "passed" ELSE "failed",
         error |-> IF r = "ok" THEN "none" ELSE r,
         attached |-> <<>>]

(* step: Пользователь ожидает сообщение с текстом "{expected_text}" *)
step_check_expected_message(has_main_page, expected_text, tpage) ==
    IF ~has_main_page
    THEN [outcome |-> "failed", error |-> "AttributeError", attached |-> <<>>]
    ELSE LET r == is_text_present(expected_text, FALSE, NoTimeout, tpage)
         IN  [outcome |-> IF r.out = "True" THEN "passed" ELSE "failed",
              error |-> IF r.out = "True" THEN "none"
                        ELSE "AssertionError: text not found",
              attached |-> r.attached]

(* step: Пользователь ожидает, что элемента с текстом "{text}" нет на странице *)
step_text_not_present(has_main_page, text, tpage) ==
    IF ~has_main_page
    THEN [outcome |-> "failed", error |-> "AttributeError", attached |-> <<>>]
    ELSE LET r == is_text_not_present(text, FALSE, NoTimeout, tpage)
         IN  [outcome |-> IF r.out = "True" THEN "passed" ELSE "failed",
              error |-> IF r.out = "True" THEN "none"
                        ELSE "AssertionError: text found",
              attached |-> r.attached]

(* step: Пользователь ожидает загрузки всей страницы *)
step_page_fully_loaded(e) ==
    LET r == wait_for_full_page_load(StepLoadTimeout, e)
    IN  [outcome |-> IF r.out = "True" THEN "passed" ELSE "failed",
         error |-> IF r.out = "True" THEN "none" ELSE r.out,
         attached |-> r.attached]

(* the step raising without the screenshot *)
step_enter_text_to_data_component_no_shot(has_main_page, text, component_name, inputs) ==
    LET r == IF has_main_page
             THEN enter_text_to_data_component(text, component_name, NoTimeout, inputs)
             ELSE [out |-> "AttributeError", target |-> None, keys |-> None]
    IN  IF r.out = "ok"
        THEN [outcome |-> "passed", error |-> "none",
              target |-> r.target, keys |-> r.keys, attached |-> <<>>]
        ELSE [outcome |-> "failed", error |-> "AssertionError",
              target |-> None, keys |-> None, attached |-> <<>>]

(* step: Пользователь вводит "{text}" в поле с data-component "{component_name}" *)
step_enter_text_to_data_component(has_main_page, text, component_name, inputs) ==
    LET r == IF has_main_page
             THEN enter_text_to_data_component(text, component_name, NoTimeout, inputs)
             ELSE [out |-> "AttributeError", target |-> None, keys |-> None]
    IN  IF r.out = "ok"
        THEN [outcome |-> "passed", error |-> "none",
              target |-> r.target, keys |-> r.keys, attached |-> <<>>]
        ELSE [outcome |-> "failed", error |-> "AssertionError",
              target |-> None, keys |-> None,
              attached |-> <<[name |-> "enter_text_data-component_error",
                              of |-> component_name]>>]

(* the step saving no reference when none exists *)
step_compare_screenshot_without_save(expected_file, shot, expected_image, threshold) ==
    [outcome |-> "failed", error |-> "AttributeError",
     expected_file |-> expected_file, diff_png |-> NoFile,
     attached |-> <<[name |-> "current", of |-> expected_image]>>]

(* the step saving every capture as the reference *)
step_compare_screenshot_overwriting(expected_file, shot, expected_image, threshold) ==
    LET current == <<[name |-> "current", of |-> expected_image]>>
    IN  IF expected_file = NoFile
        THEN [outcome |-> "failed", error |-> "AttributeError",
              expected_file |-> shot, diff_png |-> NoFile, attached |-> current]
        ELSE LET r == compare_screenshots(shot, expected_file, expected_image,
                                          threshold, TRUE)
             IN  [outcome |-> IF r.out = "True" THEN "passed" ELSE "failed",
                  error |-> IF r.out = "True" THEN "none"
                            ELSE IF r.out = "False"
                            THEN "AssertionError: visual differences"
                            ELSE r.out,
                  expected_file |-> shot, diff_png |-> r.diff_png,
                  attached |-> current \o r.attached]

(* step: Скриншот страницы соответствует эталону "{expected_image}" с допуском {threshold:f} *)
(* expected_file is the file at screenshots/expected/<expected_image>      *)
(* before the step and shot the screenshot the browser returns.            *)
step_compare_screenshot_with_expected(expected_file, shot, expected_image, threshold) ==
    LET current == <<[name |-> "current", of |-> expected_image]>>
    IN  IF expected_file = NoFile
        THEN [outcome |-> "failed",
              error |-> IF "execute_script" \in BasePageMethods
                        THEN "AssertionError: reference created"
                        ELSE "AttributeError",
              expected_file |-> shot, diff_png |-> NoFile, attached |-> current]
        ELSE LET r == compare_screenshots(shot, expected_file, expected_image,
                                          threshold, TRUE)
                 att == current \o <<[name |-> "expected", of |-> expected_image]>>
                                \o r.attached
             IN  [outcome |-> IF r.out = "True" THEN "passed" ELSE "failed",
                  error |-> IF r.out = "True" THEN "none"
                            ELSE IF r.out = "False"
                            THEN "AssertionError: visual differences"
                            ELSE r.out,
                  expected_file |-> expected_file, diff_png |-> r.diff_png,
                  attached |-> att]

----------------------------------------------------------------------------
(* Spec: the scenario runner.  behave calls before_scenario, runs the      *)
(* steps until one fails, and calls after_scenario whatever the outcome.   *)

Init ==
    /\ CallIdle
    /\ RunIdle
    /\ FilesEmpty

(* before_scenario: `created` says whether webdriver.Chrome() returned a session *)
BeforeScenario ==
    /\ phase \in {"idle", "ended"}
    /\ sessions < MaxSessions
    /\ \E created \in BOOLEAN :
          /\ driver' = IF created THEN "open" ELSE "unset"
          /\ sessions' = IF created THEN sessions + 1 ELSE sessions
          /\ phase' = IF created THEN "running" ELSE "aborted"
    /\ main_page' = FALSE
    /\ step' = NoStep
    /\ attached' = <<>>
    /\ UNCHANGED <<callVars, refs, diffs, diff_png>>

(* after_scenario without the call of quit *)
AfterScenarioNoQuit ==
    /\ phase \in {"running", "failed", "aborted"}
    /\ phase' = "ended"
    /\ UNCHANGED <<driver, sessions, main_page, step, callVars, fileVars>>

AfterScenario ==
    /\ phase \in {"running", "failed", "aborted"}
    /\ IF driver # "unset"
       THEN /\ driver' = "quit"
            /\ sessions' = sessions - 1
       ELSE UNCHANGED <<driver, sessions>>
    /\ phase' = "ended"
    /\ UNCHANGED <<main_page, step, callVars, fileVars>>

Outcome(r) == IF r.outcome = "passed" THEN "running" ELSE "failed"

StepOpenPage ==
    /\ phase = "running"
    /\ \E url \in Urls, ready \in BOOLEAN, landed \in Urls :
          LET r == step_open_page(url, ready, landed)
          IN  /\ step' = [name |-> "open_page", outcome |-> r.outcome,
                          error |-> r.error, args |-> [url |-> url]]
              /\ phase' = Outcome(r)
    /\ main_page' = TRUE
    /\ attached' = <<>>
    /\ UNCHANGED <<driver, sessions, callVars, refs, diffs, diff_png>>

StepEnterTextToDataComponent ==
    /\ phase = "running"
    /\ \E text \in Words, component_name \in Words, inputs \in SUBSET Words :
          LET r == step_enter_text_to_data_component(main_page, text, component_name, inputs)
          IN  /\ step' = [name |-> "enter_text_to_data_component",
                          outcome |-> r.outcome, error |-> r.error,
                          args |-> [text |-> text, component_name |-> component_name],
                          inputs |-> inputs, target |-> r.target, keys |-> r.keys]
              /\ phase' = Outcome(r)
              /\ attached' = r.attached
    /\ UNCHANGED <<driver, main_page, sessions, callVars, refs, diffs, diff_png>>

StepCompareScreenshot ==
    /\ phase = "running"
    /\ \E expected_image \in Names, threshold \in Tolerances, shot \in Images :
          LET r == step_compare_screenshot_with_expected(
                       refs[expected_image], shot, expected_image, threshold)
          IN  /\ step' = [name |-> "compare_screenshot",
                          outcome |-> r.outcome, error |-> r.error,
                          args |-> [expected_image |-> expected_image,
                                    threshold |-> threshold],
                          shot |-> shot,
                          had_reference |-> refs[expected_image] # NoFile]
              /\ phase' = Outcome(r)
              /\ refs' = [refs EXCEPT ![expected_image] = r.expected_file]
              /\ diff_png' = IF r.diff_png # NoFile THEN r.diff_png ELSE diff_png
              /\ attached' = r.attached
    /\ UNCHANGED <<driver, main_page, sessions, callVars, diffs>>

Next ==
    \/ BeforeScenario
    \/ StepOpenPage
    \/ StepEnterTextToDataComponent
    \/ StepCompareScreenshot
    \/ AfterScenario

Spec == Init /\ [][Next]_vars

----------------------------------------------------------------------------
(* SpecSteps: the scenario runner with the steps that leave the screenshot *)
(* store alone.  The page behaviour of a step is drawn from small sets.    *)

StepAttempts == [page : [from : {0, Horizon}, stage : {"clickable"}], stale : BOOLEAN]
StepTextPages == [text : Texts, from : {0, Horizon}, stage : {"visible"}]
StepLoadEnvs == {e \in LoadEnvs : \A l \in Landmarks : e.landmarks[l] = e.landmarks[1]}

StepCheckUrl ==
    /\ phase = "running"
    /\ \E current_url \in Urls, expected_url \in Urls :
          LET r == step_check_url(current_url, expected_url)
          IN  /\ step' = [name |-> "check_url", outcome |-> r.outcome,
                          error |-> r.error,
                          args |-> [expected_url |-> expected_url]]
              /\ phase' = Outcome(r)
              /\ attached' = r.attached
    /\ UNCHANGED <<driver, main_page, sessions, callVars, refs, diffs, diff_png>>

StepClickByText ==
    /\ phase = "running"
    /\ \E text \in Texts, a1 \in StepAttempts, a2 \in StepAttempts :
          LET r == step_click_by_text(main_page, a1, a2)
          IN  /\ step' = [name |-> "click_by_text", outcome |-> r.outcome,
                          error |-> r.error, args |-> [text |-> text]]
              /\ phase' = Outcome(r)
              /\ attached' = r.attached
    /\ UNCHANGED <<driver, main_page, sessions, callVars, refs, diffs, diff_png>>

StepCheckExpectedMessage ==
    /\ phase = "running"
    /\ \E expected_text \in Texts, tpage \in StepTextPages :
          LET r == step_check_expected_message(main_page, expected_text, tpage)
          IN  /\ step' = [name |-> "check_expected_message",
                          outcome |-> r.outcome, error |-> r.error,
                          args |-> [expected_text |-> expected_text]]
              /\ phase' = Outcome(r)
              /\ attached' = r.attached
    /\ UNCHANGED <<driver, main_page, sessions, callVars, refs, diffs, diff_png>>

StepTextNotPresent ==
    /\ phase = "running"
    /\ \E text \in Texts, tpage \in StepTextPages :
          LET r == step_text_not_present(main_page, text, tpage)
          IN  /\ step' = [name |-> "text_not_present",
                          outcome |-> r.outcome, error |-> r.error,
                          args |-> [text |-> text]]
              /\ phase' = Outcome(r)
              /\ attached' = r.attached
    /\ UNCHANGED <<driver, main_page, sessions, callVars, refs, diffs, diff_png>>

StepPageFullyLoaded ==
    /\ phase = "running"
    /\ \E e \in StepLoadEnvs :
          LET r == step_page_fully_loaded(e)
          IN  /\ step' = [name |-> "page_fully_loaded",
                          outcome |-> r.outcome, error |-> r.error,
                          args |-> [timeout |-> StepLoadTimeout]]
              /\ phase' = Outcome(r)
              /\ attached' = r.attached
    /\ UNCHANGED <<driver, main_page, sessions, callVars, refs, diffs, diff_png>>

NextSteps ==
    \/ BeforeScenario
    \/ StepOpenPage
    \/ StepCheckUrl
    \/ StepClickByText
    \/ StepCheckExpectedMessage
    \/ StepTextNotPresent
    \/ StepEnterTextToDataComponent
    \/ StepPageFullyLoaded
    \/ AfterScenario

SpecSteps == Init /\ [][NextSteps]_vars

----------------------------------------------------------------------------
(* Properties of the page-object calls.  They are stated over the          *)
(* arguments and the page behaviour drawn by Init, not over the operators  *)
(* of the model.                                                           *)

(* the configured timeout of the call, in polls *)
ConfiguredPolls ==
    (IF args.timeout = NoTimeout \/ args.timeout = 0
     THEN DefaultTimeout ELSE args.timeout) * PollsPerSec

(* the attempt finds the element clickable at a poll before the deadline *)
Resolves(a) == a.page.from < ConfiguredPolls
ReportsStale(a) == Resolves(a) /\ a.stale
Completes(a) == Resolves(a) /\ ~a.stale

(* C1: click_element retries exactly once on staleness.  When the first    *)
(* resolve-and-click attempt reports a stale handle and the second attempt *)
(* clicks without staleness, the call succeeds with two resolutions and    *)
(* one completed click; when the second attempt is stale too (or fails in  *)
(* any other way) the call fails; the locator is never resolved more than  *)
(* twice.                                                                  *)
C1_ClickRetriesOnce ==
    (pc = "done" /\ op = "click_element") =>
        /\ ret.resolutions <= 2
        /\ (ReportsStale(env.a1) /\ Completes(env.a2)) =>
               (ret.out = "ok" /\ ret.resolutions = 2 /\ ret.clicks = 1)
        /\ (ReportsStale(env.a1) /\ ReportsStale(env.a2)) =>
               (ret.out = "StaleElementReferenceException"
                    /\ ret.resolutions = 2 /\ ret.clicks = 0)
        /\ (ReportsStale(env.a1) /\ ~Completes(env.a2)) => ret.out # "ok"
        /\ ~ReportsStale(env.a1) => ret.resolutions = 1

C1_Witness ==
    /\ pc = "done" /\ op = "click_element"
    /\ ReportsStale(env.a1) /\ Completes(env.a2)
    /\ ret.out = "ok" /\ ret.resolutions = 2

(* C5: compare_screenshots of an image whose (width, height) differs from  *)
(* the reference's raises the size-mismatch error, before pixelmatch is    *)
(* called and before any diff image is written or attached.                *)
C5_SizeMismatchFailsEarly ==
    (pc = "done" /\ op = "compare_screenshots"
        /\ refs[args.name] # NoFile
        /\ (args.actual.w # refs[args.name].w \/ args.actual.h # refs[args.name].h)) =>
        /\ ret.out = "ValueError"
        /\ ret.pixelmatch_calls = 0
        /\ diff_png = NoFile
        /\ attached = <<>>

C5_Witness ==
    /\ pc = "done" /\ op = "compare_screenshots"
    /\ refs[args.name] # NoFile
    /\ args.actual.w # refs[args.name].w
    /\ args.save_diff
    /\ ret.out = "ValueError"

(* C6: compare_screenshots of an image against a reference that is the     *)
(* identical image returns true, for every tolerance >= 0 and every size.  *)
C6_IdenticalImagePasses ==
    (pc = "done" /\ op = "compare_screenshots" /\ refs[args.name] = args.actual) =>
        ret.out = "True"

C6_Witness ==
    /\ pc = "done" /\ op = "compare_screenshots"
    /\ refs[args.name] = args.actual
    /\ args.threshold = 0
    /\ args.actual.w * args.actual.h > 1
    /\ ret.out = "True"

(* the page shows a displayed element matching the text before the deadline *)
TextShown ==
    /\ IF args.exact_match THEN env.page.text = args.text
       ELSE contains(env.page.text, args.text)
    /\ env.page.stage = "visible"
    /\ env.page.from < ConfiguredPolls

(* C7: under the same text, match mode, timeout and page behaviour,        *)
(* is_text_not_present returns the logical negation of what                *)
(* is_text_present returns.                                                *)
C7_NotPresentIsNegation ==
    (ret.present # NoCall /\ ret.absent # NoCall) =>
        /\ ret.present.out \in {"True", "False"}
        /\ ret.absent.out \in {"True", "False"}
        /\ (ret.absent.out = "True") <=> (ret.present.out = "False")

C7_Witness ==
    /\ ret.present # NoCall /\ ret.absent # NoCall
    /\ args.exact_match
    /\ contains(env.page.text, args.text) /\ env.page.text # args.text
    /\ env.page.stage = "visible" /\ env.page.from = 0
    /\ ret.absent.out = "True"

WaitedFor(st) ==
    CASE op = "wait_and_find_element" -> st \in {"visible", "clickable"}
      [] op = "wait_and_find_elements" -> st \in {"present", "visible", "clickable"}
      [] op = "wait_for_clickable" -> st = "clickable"

(* C9: a wait primitive returns the element(s) when its predicate becomes  *)
(* true at a poll before the deadline, the last such poll included, and    *)
(* raises a timeout error otherwise; it never returns without the          *)
(* predicate holding at the poll it returned at.                           *)
C9_WaitReturnsIffPredicateHeld ==
    (pc = "done" /\ op \in {"wait_and_find_element", "wait_and_find_elements",
                            "wait_for_clickable"}) =>
        IF WaitedFor(env.page.stage) /\ env.page.from <= ConfiguredPolls - 1
        THEN /\ ret.out = "element"
             /\ ret.at = env.page.from
             /\ ret.at < ConfiguredPolls
        ELSE ret.out = "TimeoutException"

C9_Witness ==
    /\ pc = "done" /\ op = "wait_for_clickable"
    /\ env.page.stage = "clickable"
    /\ env.page.from = ConfiguredPolls - 1
    /\ ret.out = "element"

----------------------------------------------------------------------------
(* Properties of the scenario runner *)

(* C2: every session created by before_scenario is released by             *)
(* after_scenario on every exit path of the scenario, also after a step    *)
(* failed an assertion or raised: no scenario ends with its session open.  *)
C2_SessionReleased ==
    phase \in {"idle", "ended"} => (sessions = 0 /\ driver # "open")

C2_Witness ==
    /\ phase = "ended"
    /\ driver = "quit"
    /\ step.outcome = "failed"
    /\ step.error = "AttributeError"

(* C3: when the screenshot-comparison step runs and no reference file      *)
(* exists, the step fails and afterwards a reference file exists at that   *)
(* path with the pixel dimensions of the screenshot captured in the step.  *)
C3_FirstComparisonFailsAndCreatesReference ==
    (step.name = "compare_screenshot" /\ ~step.had_reference) =>
        /\ step.outcome = "failed"
        /\ phase \in {"failed", "ended"}
        /\ refs[step.args.expected_image] # NoFile
        /\ refs[step.args.expected_image].w = step.shot.w
        /\ refs[step.args.expected_image].h = step.shot.h

C3_Witness ==
    /\ step.name = "compare_screenshot" /\ ~step.had_reference
    /\ step.outcome = "failed"
    /\ refs[step.args.expected_image] = step.shot
    /\ step.shot.w * step.shot.h = MaxArea

(* C4: when the screenshot-comparison step runs with no reference on disk, *)
(* the failure it raises is the explicit "reference created, rerun         *)
(* required" assertion failure, not any other kind of error.               *)
C4_ReferenceCreatedSignal ==
    (step.name = "compare_screenshot" /\ ~step.had_reference) =>
        step.error = "AssertionError: reference created"

(* C10: the step typing into the field with a data-component sends the     *)
(* scenario's text as key events to the element whose data-component       *)
(* equals the scenario's component_name.                                   *)
C10_TypesTextIntoComponent ==
    /\ (step.name = "enter_text_to_data_component" /\ step.outcome = "passed") =>
           /\ step.target = step.args.component_name
           /\ step.keys = step.args.text
    /\ (step.name = "enter_text_to_data_component" /\ main_page
            /\ step.args.component_name \in step.inputs) =>
           step.outcome = "passed"

----------------------------------------------------------------------------
(* Properties of wait_for_full_page_load *)

(* the timeout of the call in polls: 15 s when the argument is omitted *)
LoadPolls ==
    (IF args.timeout = NoTimeout THEN LoadDefaultTimeout ELSE args.timeout)
        * PollsPerSec

(* document.readyState is "complete" at a poll of the first wait *)
ReadyInTime == env.ready = 0 \/ env.ready < LoadPolls

StableHeight == ~env.sampling_fails /\ env.h1 = env.h2

(* C11 as stated: a failure of the ready-state wait, of the pending-request *)
(* wait or of a landmark wait never makes the call fail; the call goes on   *)
(* to the stability check and returns true when the two heights are equal.  *)
C11_EveryEarlierFailureSwallowed ==
    (pc = "done" /\ op = "wait_for_full_page_load" /\ StableHeight) =>
        (ret.stability_checked /\ ret.out = "True")

(* C11 amended: a failure of the pending-request wait or of a landmark     *)
(* visibility wait is swallowed, the call goes on to the stability check   *)
(* and returns true when the two heights are equal; a timeout of the       *)
(* ready-state wait is not swallowed: the call fails with the load-failure *)
(* assertion error, after a screenshot, without the stability check.       *)
C11_AjaxAndLandmarkFailuresSwallowed ==
    (pc = "done" /\ op = "wait_for_full_page_load") =>
        /\ ReadyInTime =>
              /\ ret.stability_checked
              /\ StableHeight => (ret.out = "True" /\ attached = <<>>)
        /\ ~ReadyInTime =>
              /\ ret.out = "AssertionError"
              /\ ~ret.stability_checked
              /\ attached = <<[name |-> "page_load_failed", of |-> "ready_state"]>>

C11_Witness ==
    /\ pc = "done" /\ op = "wait_for_full_page_load"
    /\ ReadyInTime /\ StableHeight
    /\ env.ajax = "busy"
    /\ env.landmarks[1] = "hidden" /\ env.landmarks[2] = "missing"
    /\ ret.swallowed = 2
    /\ ret.out = "True"

(* C12: when the stability check fails (the two height samples differ or   *)
(* sampling raises) a screenshot is captured and the call fails with the   *)
(* load-failure assertion error; the call never returns false and never    *)
(* returns true when the two samples differ.                               *)
C12_UnstableHeightFailsWithScreenshot ==
    (pc = "done" /\ op = "wait_for_full_page_load") =>
        /\ ret.out \in {"True", "AssertionError"}
        /\ ret.out = "True" => StableHeight
        /\ (ReadyInTime /\ ~StableHeight) =>
              /\ ret.out = "AssertionError"
              /\ ret.cause = "stability"
              /\ attached = <<[name |-> "page_load_failed", of |-> "stability"]>>

C12_Witness ==
    /\ pc = "done" /\ op = "wait_for_full_page_load"
    /\ ReadyInTime /\ ~env.sampling_fails /\ env.h1 # env.h2
    /\ ret.out = "AssertionError"
    /\ Len(attached) = 1

----------------------------------------------------------------------------
(* Properties of the screenshot stores *)

(* C13: when a same-size comparison fails (mismatch ratio above the        *)
(* tolerance) a diff image is persisted at screenshots/diff/<name>, the    *)
(* path the failure message of the step names.                             *)
C13_DiffPersistedUnderName ==
    (step.name = "compare_screenshot" /\ step.had_reference
        /\ step.error = "AssertionError: visual differences") =>
        diffs[step.args.expected_image] # NoFile

(* C15: once a reference file exists for a name, no run of the             *)
(* screenshot-comparison step creates, overwrites or deletes it, so after  *)
(* a first run created the reference a run capturing a pixel-identical     *)
(* screenshot passes at any tolerance >= 0.                                *)
C15_ReferenceIsGroundTruth ==
    [][/\ \A n \in Names : refs[n] # NoFile => refs'[n] = refs[n]
       /\ (step'.name = "compare_screenshot" /\ step'.had_reference
              /\ step'.shot = refs'[step'.args.expected_image])
            => step'.outcome = "passed"]_vars

C15_Witness ==
    /\ step.name = "compare_screenshot" /\ step.had_reference
    /\ step.shot = refs[step.args.expected_image]
    /\ step.args.threshold = 0
    /\ step.outcome = "passed"

----------------------------------------------------------------------------
(* Properties of the failing steps *)

----------------------------------------------------------------------------
(* Properties of the timeout argument *)

(* the call found what it waited for *)
Succeeded == ret.out \in {"element", "True"}

(* C16 as stated: every waiting method with an optional timeout waits the  *)
(* caller's timeout when it is non-zero and the page object's default when *)
(* it is omitted or 0, so the call succeeds exactly when the awaited       *)
(* change happens at a poll of that wait.                                  *)
C16_EveryWaitDefaultsOnZero ==
    pc = "done" => (Succeeded <=> env.from < ConfiguredPolls)

(* C16 amended: the methods that resolve the argument with `timeout or     *)
(* self.timeout` wait the caller's timeout when it is non-zero and the     *)
(* default when it is omitted or 0; wait_for_full_page_load hands its      *)
(* argument to the waits as it is: 15 s when omitted, and with 0 the       *)
(* ready-state condition is evaluated once.                                *)
C16_TimeoutOrDefault ==
    pc = "done" =>
        IF op = "wait_for_full_page_load"
        THEN Succeeded <=> (env.from = 0 \/ env.from < LoadPolls)
        ELSE Succeeded <=> env.from < ConfiguredPolls

C16_Witness ==
    /\ pc = "done"
    /\ op = "is_element_not_visible"
    /\ args.timeout = 0
    /\ env.from = DefaultTimeout * PollsPerSec - 1
    /\ ret.out = "True"

====
